---- MODULE Spec2Model ----
(***************************************************************************)
(* Model of ultrack/core/linking/processing.py: the temporal linking stage *)
(* (_compute_features, _process, link).                                    *)
(*                                                                         *)
(* Conventions.                                                            *)
(*  - Real numbers (positions, shifts, distances, IoU, weights, features)  *)
(*    are fixed-point integers counting units of 1/Unit.                   *)
(*  - Python lists and numpy arrays are TLA+ sequences; Python index i is  *)
(*    TLA+ index i+1, so the "missing neighbor" index n of KDTree.query    *)
(*    (n = number of tree points) is Len(current_nodes) + 1 here.          *)
(*  - A bounding box is <<ymin, xmin, ymax, xmax>>, half open.             *)
(***************************************************************************)
EXTENDS Integers, Sequences, FiniteSets, TLC

VARIABLES nodes, config, images, scale, batch_index, overwrite,
          store, link_pc, time_points, write_lock, lock_owner, proc, runs,
          store_at_call

vars == <<nodes, config, images, scale, batch_index, overwrite,
          store, link_pc, time_points, write_lock, lock_owner, proc, runs,
          store_at_call>>

\* ------------------------------------------------------------------ bounds

\* Fixed-point resolution: a real r is the integer r * Unit.
Unit == 10
\* Largest time index holding nodes in a run of link (times 0..MaxT).
MaxT == 2
\* Largest number of current-time and of next-time nodes of one _process call.
MaxCurrent == 3
MaxNext == 2
\* Largest config.max_neighbors and config.n_workers tried.
MaxNeighbors == 2
MaxWorkers == 2
\* Number of invocations of link in one behaviour.
MaxRuns == 2

\* ------------------------------------------------------------ arithmetic

\* An Optional value: None, or Some(x).
None == <<>>

Some(x) == <<x>>

\* np.inf, the distance KDTree.query gives a missing neighbor.
Inf == 1000000

\* The denominator of the 1e-6 below which a standard deviation is replaced.
StdFloorDen == 1000000

Abs(x) == IF x < 0 THEN -x ELSE x

Min(a, b) == IF a <= b THEN a ELSE b

Max(a, b) == IF a >= b THEN a ELSE b

RECURSIVE ISqrtFrom(_, _)
ISqrtFrom(x, r) == IF (r + 1) * (r + 1) > x THEN r ELSE ISqrtFrom(x, r + 1)

\* Floor of the square root.
ISqrt(x) == ISqrtFrom(x, 0)

RECURSIVE SumSeq(_)
SumSeq(s) == IF s = <<>> THEN 0 ELSE Head(s) + SumSeq(Tail(s))

RECURSIVE MaxSeq(_)
MaxSeq(s) == IF Len(s) = 1 THEN s[1] ELSE Max(Head(s), MaxSeq(Tail(s)))

RECURSIVE Flatten(_)
Flatten(ss) == IF ss = <<>> THEN <<>> ELSE Head(ss) \o Flatten(Tail(ss))

Range(s) == {s[i] : i \in 1..Len(s)}

\* s[-n:] of Python, for 0 < n <= Len(s).
Trailing(s, n) == SubSeq(s, Len(s) - n + 1, Len(s))

\* s[:n] of Python.
Leading(s, n) == SubSeq(s, 1, Min(n, Len(s)))

\* np.round of a fixed-point value to an integer: half goes to the even side.
Round(x) ==
    LET f == x \div Unit
        r == x % Unit
    IN  IF 2 * r < Unit THEN f
        ELSE IF 2 * r > Unit THEN f + 1
        ELSE IF f % 2 = 0 THEN f ELSE f + 1

\* Python's ordering of tuples of numbers: a < b.
RECURSIVE TupleLess(_, _)
TupleLess(a, b) ==
    IF a = <<>> THEN b # <<>>
    ELSE IF b = <<>> THEN FALSE
    ELSE IF Head(a) # Head(b) THEN Head(a) < Head(b)
    ELSE TupleLess(Tail(a), Tail(b))

\* sorted(s) without reverse=True.
SortedForward(s) == SortSeq(s, LAMBDA a, b : TupleLess(a, b))

\* sorted(s, reverse=True) on a list of tuples.
SortedReverse(s) == SortSeq(s, LAMBDA a, b : TupleLess(b, a))

\* ------------------------------------------------------- Node and images

\* Node.IoU: intersection over union of two bounding boxes.
IoU(a, b) ==
    LET hy == Max(0, Min(a[3], b[3]) - Max(a[1], b[1]))
        hx == Max(0, Min(a[4], b[4]) - Max(a[2], b[2]))
        inter == hy * hx
        area(c) == (c[3] - c[1]) * (c[4] - c[2])
        union == area(a) + area(b) - inter
    IN  (inter * Unit) \div union

\* The pixels a node covers: those of its bounding box, in row-major order.
Pixels(bbox) ==
    Flatten([i \in 1..(bbox[3] - bbox[1]) |->
                [j \in 1..(bbox[4] - bbox[2]) |->
                    <<bbox[1] + i - 1, bbox[2] + j - 1>>]])

\* image[time] of one image source at pixel p: the sources are fixed synthetic
\* fields, "a" a vertical edge at x = 5 and "b" a ramp along y that brightens
\* with time.
Pixel(image, time, p) ==
    IF image = "a" THEN (IF p[2] >= 5 THEN 4 ELSE 1) ELSE p[1] + 2 * time

\* frames[p]: the sources stacked along a trailing channel axis.
Frames(time, imgs, p) == [c \in 1..Len(imgs) |-> Pixel(imgs[c], time, p)]

\* Node.intensity_mean: per-channel mean of the frame over the node's pixels.
MeanOver(px, time, imgs) ==
    [c \in 1..Len(imgs) |->
        (SumSeq([k \in 1..Len(px) |-> Frames(time, imgs, px[k])[c]]) * Unit)
            \div Len(px)]

intensity_mean(node, time, imgs) == MeanOver(Pixels(node.bbox), time, imgs)

\* Node.intensity_std: per-channel standard deviation over the node's pixels.
StdAround(mean, px, time, imgs) ==
    [c \in 1..Len(imgs) |->
        ISqrt(SumSeq([k \in 1..Len(px) |->
                (Frames(time, imgs, px[k])[c] * Unit - mean[c])
              * (Frames(time, imgs, px[k])[c] * Unit - mean[c])])
              \div Len(px))]

intensity_std(node, time, imgs) ==
    StdAround(intensity_mean(node, time, imgs), Pixels(node.bbox), time, imgs)

\* _compute_features with one feature function: one row per node.
ComputeMean(time, nodelist, imgs) ==
    [i \in 1..Len(nodelist) |-> intensity_mean(nodelist[i], time, imgs)]

ComputeStd(time, nodelist, imgs) ==
    [i \in 1..Len(nodelist) |-> intensity_std(nodelist[i], time, imgs)]

\* ------------------------------------------------- _process, step by step

\* Rows of NodeDB with NodeDB.t == time: <<pickle, z_shift, y_shift, x_shift>>.
QueryNodes(time) == IF time \in DOMAIN nodes THEN nodes[time] ELSE <<>>

\* The rows of NodeDB as node lists: the pickles, and the shift columns.
Pickles(rows) == [i \in 1..Len(rows) |-> rows[i].pickle]

Shifts(rows) ==
    [i \in 1..Len(rows) |-> <<rows[i].z_shift, rows[i].y_shift, rows[i].x_shift>>]

\* [n.centroid for n in ...] as an array of reals.
Centroids(nodelist) ==
    [i \in 1..Len(nodelist) |->
        [d \in 1..Len(nodelist[i].centroid) |-> nodelist[i].centroid[d] * Unit]]

\* next_shift[:, -n_dim:]
TrimShift(shift, n_dim) == [i \in 1..Len(shift) |-> Trailing(shift[i], n_dim)]

\* next_pos += next_shift
AddShift(pos, shift) ==
    [i \in 1..Len(pos) |-> [d \in 1..Len(pos[i]) |-> pos[i][d] + shift[i][d]]]

\* pos[..., -m:] * scale, scale already cut to its trailing m entries.
ScalePositions(pos, sc) ==
    [i \in 1..Len(pos) |->
        [d \in 1..Len(sc) |-> Trailing(pos[i], Len(sc))[d] * sc[d]]]

\* Euclidean distance between two positions.
Distance(p, q) ==
    ISqrt(SumSeq([d \in 1..Len(p) |-> (p[d] - q[d]) * (p[d] - q[d])]))

\* The distance of every tree point to q.
DistancesTo(tree, q) == [j \in 1..Len(tree) |-> Distance(tree[j], q)]

\* Nearest without distance_upper_bound.
NearestUnbounded(dist, k, upper) ==
    Leading(SortSeq([j \in 1..Len(dist) |-> j],
                    LAMBDA a, b : TupleLess(<<dist[a], a>>, <<dist[b], b>>)),
            k)

\* The tree points strictly within the upper bound, given their distances:
\* nearest first (the lower index first among equally distant ones), at most k.
Nearest(dist, k, upper) ==
    Leading(SelectSeq(SortSeq([j \in 1..Len(dist) |-> j],
                              LAMBDA a, b : TupleLess(<<dist[a], a>>,
                                                      <<dist[b], b>>)),
                      LAMBDA j : dist[j] < upper),
            k)

\* The k slots of one query point: <<distances, neighbors>>, a missing neighbor
\* given the distance inf and the index n.
QueryRow(dist, found, k) ==
    <<[s \in 1..k |-> IF s <= Len(found) THEN dist[found[s]] ELSE Inf],
      [s \in 1..k |-> IF s <= Len(found) THEN found[s] ELSE Len(dist) + 1]>>

QueryPoint(dist, k, upper) == QueryRow(dist, Nearest(dist, k, upper), k)

QueryRows(tree, points, k, upper) ==
    [i \in 1..Len(points) |-> QueryPoint(DistancesTo(tree, points[i]), k, upper)]

Column(rows, c) == [i \in 1..Len(rows) |-> rows[i][c]]

\* KDTree(tree).query(points, k, distance_upper_bound): <<distances, neighbors>>,
\* one row of k slots per query point.
KDTreeQuery(tree, points, k, upper) ==
    <<Column(QueryRows(tree, points, k, upper), 1),
      Column(QueryRows(tree, points, k, upper), 2)>>

\* True division of reals, b > 0.
Divide(a, b) == IF a < 0 THEN -(((-a) * Unit) \div b) ELSE (a * Unit) \div b

\* next_features_std[next_features_std <= 1e-6] = 1.0
FloorStd(std) ==
    [i \in 1..Len(std) |->
        [c \in 1..Len(std[i]) |->
            IF std[i][c] * StdFloorDen <= Unit THEN Unit ELSE std[i][c]]]

\* ColorPass that looks at the first channel only.
ColorPassFirstChannel(next_feat, next_std, cur_feat, z) ==
    Abs(Divide(next_feat[1] - cur_feat[1], next_std[1])) <= z

\* np.abs(difference).max(axis=-1) <= z_score_threshold, for one pair of rows.
ColorPass(next_feat, next_std, cur_feat, z) ==
    MaxSeq([c \in 1..Len(next_feat) |->
                Abs(Divide(next_feat[c] - cur_feat[c], next_std[c]))]) <= z

\* Lines 134-136 on the features of lines 118-133.
FilterByColor(cf, nf, ns, neighbors, z) ==
    [current_features |-> cf, next_features |-> nf, next_features_std |-> ns,
     filtered_by_color |->
        [i \in 1..Len(neighbors) |->
            [s \in 1..Len(neighbors[i]) |->
                ColorPass(nf[i], ns[i], cf[neighbors[i][s]], z)]]]

\* Lines 116-136: the features of both node lists and the color filter.
ColorFilter(time, current, next, imgs, neighbors, z) ==
    FilterByColor(
        Append(ComputeMean(time, current, imgs), [c \in 1..Len(imgs) |-> 0]),
        ComputeMean(time + 1, next, imgs),
        FloorStd(ComputeStd(time + 1, next, imgs)),
        neighbors, z)

\* MoveBbox that leaves the box where it is.
MoveBboxNowhere(bbox, shift) == bbox

\* node.bbox[:n_dim] += shift; node.bbox[-n_dim:] += shift
MoveBbox(bbox, shift) ==
    LET n_dim == Len(shift)
    IN  [d \in 1..Len(bbox) |->
            bbox[d]
            + (IF d <= n_dim THEN shift[d] ELSE 0)
            + (IF d > Len(bbox) - n_dim THEN shift[d - (Len(bbox) - n_dim)] ELSE 0)]

\* EdgeWeight with the distance added instead of subtracted.
EdgeWeightPlus(node, neigh, distance_w, neigh_dist) ==
    IoU(node.bbox, neigh.bbox) + (distance_w * neigh_dist) \div Unit

\* edge_weight = node.IoU(neigh) - distance_w * neigh_dist
EdgeWeight(node, neigh, distance_w, neigh_dist) ==
    IoU(node.bbox, neigh.bbox) - (distance_w * neigh_dist) \div Unit

\* valid = (~np.isinf(distances[i])) & filtered_by_color[i], for one slot.
Valid(distance, passed) == distance # Inf /\ passed

\* The neighborhood of next node i: one tuple
\* (edge_weight, -neigh_dist, neigh.id, node.id) per valid slot, in slot order.
Neighborhood(i, node, current, distances, neighbors, filtered, distance_w) ==
    LET entry(s) ==
            <<EdgeWeight(node, current[neighbors[i][s]], distance_w,
                         distances[i][s]),
              -distances[i][s], current[neighbors[i][s]].id, node.id>>
        RECURSIVE from(_)
        from(s) ==
            IF s > Len(distances[i]) THEN <<>>
            ELSE IF Valid(distances[i][s], filtered[i][s])
            THEN <<entry(s)>> \o from(s + 1)
            ELSE from(s + 1)
    IN  from(1)

\* TopNeighbors without the cut to max_neighbors.
TopNeighborsUncut(neighborhood, max_neighbors) == SortedReverse(neighborhood)

\* sorted(neighborhood, reverse=True)[: config.max_neighbors]
TopNeighbors(neighborhood, max_neighbors) ==
    Leading(SortedReverse(neighborhood), max_neighbors)

\* np.asarray(links)[:, [0, 2, 3]] as rows of the DataFrame.
LinkRows(links) ==
    [x \in 1..Len(links) |->
        [weight |-> links[x][1], source_id |-> links[x][3],
         target_id |-> links[x][4]]]

\* Lines 95-103 raise on empty node lists: an empty list is an array of shape
\* (0,), so next_pos.shape[1] raises IndexError, and the product of an empty
\* current_pos with a scale of two or more entries raises ValueError.
AlignError(current, next, sc) ==
    IF Len(next) = 0 THEN "IndexError"
    ELSE IF sc # None /\ Len(current) = 0
            /\ Min(Len(next[1].centroid), Len(sc[1])) # 1 THEN "ValueError"
    ELSE ""

\* Lines 100-103 on one array of positions.
Rescale(pos, n_dim, sc) ==
    IF sc = None THEN pos
    ELSE ScalePositions(pos, Trailing(sc[1], Min(n_dim, Len(sc[1]))))

\* current_pos of lines 92-102.
CurrentPos(current, next, sc) ==
    Rescale(Centroids(current), Len(next[1].centroid), sc)

\* next_pos of lines 93-103; shift is next_shift as read, a column per axis.
NextPos(next, shift, sc) ==
    Rescale(AddShift(Centroids(next), TrimShift(shift, Len(next[1].centroid))),
            Len(next[1].centroid), sc)

\* np.round(next_shift).astype(int)
RoundShift(shift) ==
    [i \in 1..Len(shift) |-> [d \in 1..Len(shift[i]) |-> Round(shift[i][d])]]

\* Lines 140-144: every next node with its box moved by its rounded shift.
MoveNodes(next, shift) ==
    [i \in 1..Len(next) |->
        [next[i] EXCEPT !.bbox = MoveBbox(@, RoundShift(shift)[i])]]

\* filtered_by_color without images: np.ones_like(neighbors, dtype=bool).
OnesLike(neighbors) ==
    [i \in 1..Len(neighbors) |-> [s \in 1..Len(neighbors[i]) |-> TRUE]]

\* Lines 147-165: the links of every next node, in the order of next_nodes.
ScoreLinks(next, current, distances, neighbors, filtered, distance_w,
           max_neighbors) ==
    Flatten([i \in 1..Len(next) |->
        TopNeighbors(Neighborhood(i, next[i], current, distances, neighbors,
                                  filtered, distance_w),
                     max_neighbors)])

\* The locals of a call of _process that has not started.
NoLocals ==
    [pc |-> "idle", error |-> "",
     current_nodes |-> <<>>, next_nodes |-> <<>>, next_shift |-> <<>>,
     current_pos |-> <<>>, next_pos |-> <<>>,
     distances |-> <<>>, neighbors |-> <<>>,
     current_features |-> <<>>, next_features |-> <<>>,
     next_features_std |-> <<>>, filtered_by_color |-> <<>>,
     links |-> <<>>, df |-> <<>>]

Raise(t, exception) ==
    proc' = [proc EXCEPT ![t] = [@ EXCEPT !.pc = "raised", !.error = exception]]

\* Lines 76-90: the two node queries of the session.
ReadNodes(t) ==
    /\ proc[t].pc = "read"
    /\ proc' = [proc EXCEPT ![t] =
          [@ EXCEPT !.pc = "align",
                    !.current_nodes = Pickles(QueryNodes(t)),
                    !.next_nodes = Pickles(QueryNodes(t + 1)),
                    !.next_shift = Shifts(QueryNodes(t + 1))]]
    /\ UNCHANGED <<nodes, config, images, scale, batch_index, overwrite,
                   store, link_pc, time_points, write_lock, lock_owner, runs,
                   store_at_call>>

\* Lines 92-103: positions, shift and scale.
Align(t) ==
    /\ proc[t].pc = "align"
    /\ IF AlignError(proc[t].current_nodes, proc[t].next_nodes, scale) # ""
       THEN Raise(t, AlignError(proc[t].current_nodes, proc[t].next_nodes, scale))
       ELSE proc' = [proc EXCEPT ![t] =
                [@ EXCEPT !.pc = "query",
                          !.next_shift =
                              TrimShift(@, Len(proc[t].next_nodes[1].centroid)),
                          !.current_pos =
                              CurrentPos(proc[t].current_nodes,
                                         proc[t].next_nodes, scale),
                          !.next_pos =
                              NextPos(proc[t].next_nodes, proc[t].next_shift,
                                      scale)]]
    /\ UNCHANGED <<nodes, config, images, scale, batch_index, overwrite,
                   store, link_pc, time_points, write_lock, lock_owner, runs,
                   store_at_call>>

\* Lines 107-114: the tree over the current positions and its query. KDTree
\* raises ValueError on data that is not two-dimensional (no current node).
Query(t) ==
    /\ proc[t].pc = "query"
    /\ IF Len(proc[t].current_pos) = 0
       THEN Raise(t, "ValueError")
       ELSE \E q \in {KDTreeQuery(proc[t].current_pos, proc[t].next_pos,
                                  2 * config.max_neighbors, config.max_distance)} :
                proc' = [proc EXCEPT ![t] =
                    [@ EXCEPT !.pc = "features", !.distances = q[1],
                              !.neighbors = q[2]]]
    /\ UNCHANGED <<nodes, config, images, scale, batch_index, overwrite,
                   store, link_pc, time_points, write_lock, lock_owner, runs,
                   store_at_call>>

\* Lines 116-138: the color filter, or all ones without images.
Features(t) ==
    /\ proc[t].pc = "features"
    /\ IF Len(images) > 0
       THEN \E f \in {ColorFilter(t, proc[t].current_nodes, proc[t].next_nodes,
                                  images, proc[t].neighbors,
                                  config.z_score_threshold)} :
                proc' = [proc EXCEPT ![t] =
                    [@ EXCEPT !.pc = "translate",
                              !.current_features = f.current_features,
                              !.next_features = f.next_features,
                              !.next_features_std = f.next_features_std,
                              !.filtered_by_color = f.filtered_by_color]]
       ELSE proc' = [proc EXCEPT ![t] =
                    [@ EXCEPT !.pc = "translate",
                              !.filtered_by_color = OnesLike(proc[t].neighbors)]]
    /\ UNCHANGED <<nodes, config, images, scale, batch_index, overwrite,
                   store, link_pc, time_points, write_lock, lock_owner, runs,
                   store_at_call>>

\* Lines 140-144: the boxes of the next nodes move by the rounded shift.
Translate(t) ==
    /\ proc[t].pc = "translate"
    /\ proc' = [proc EXCEPT ![t] =
          [@ EXCEPT !.pc = "score",
                    !.next_nodes = MoveNodes(@, proc[t].next_shift)]]
    /\ UNCHANGED <<nodes, config, images, scale, batch_index, overwrite,
                   store, link_pc, time_points, write_lock, lock_owner, runs,
                   store_at_call>>

\* Lines 146-165: score, rank and cut the neighborhood of every next node.
Score(t) ==
    /\ proc[t].pc = "score"
    /\ proc' = [proc EXCEPT ![t] =
          [@ EXCEPT !.pc = "frame",
                    !.links =
                        ScoreLinks(proc[t].next_nodes, proc[t].current_nodes,
                                   proc[t].distances, proc[t].neighbors,
                                   proc[t].filtered_by_color,
                                   config.distance_weight,
                                   config.max_neighbors)]]
    /\ UNCHANGED <<nodes, config, images, scale, batch_index, overwrite,
                   store, link_pc, time_points, write_lock, lock_owner, runs,
                   store_at_call>>

\* Lines 167-168: the columns of the DataFrame. np.asarray of an empty list has
\* shape (0,), and indexing its columns raises IndexError.
Frame(t) ==
    /\ proc[t].pc = "frame"
    /\ IF Len(proc[t].links) = 0
       THEN Raise(t, "IndexError")
       ELSE proc' = [proc EXCEPT ![t] =
                [@ EXCEPT !.pc = "acquire", !.df = LinkRows(proc[t].links)]]
    /\ UNCHANGED <<nodes, config, images, scale, batch_index, overwrite,
                   store, link_pc, time_points, write_lock, lock_owner, runs,
                   store_at_call>>

\* CanEnter of a lock that excludes nobody.
CanEnterAlways(t) == TRUE

\* Whether the with statement of line 170 can be entered by task t.
CanEnter(t) == write_lock # None => lock_owner = {}

\* Line 170: entering write_lock, or nullcontext() when there is none.
Acquire(t) ==
    /\ proc[t].pc = "acquire"
    /\ CanEnter(t)
    /\ proc' = [proc EXCEPT ![t] = [@ EXCEPT !.pc = "to_sql"]]
    /\ lock_owner' = IF write_lock = None THEN lock_owner ELSE lock_owner \cup {t}
    /\ UNCHANGED <<nodes, config, images, scale, batch_index, overwrite,
                   store, link_pc, time_points, write_lock, runs,
                   store_at_call>>

\* Lines 171-176: the transaction that appends the rows to LinkDB.
ToSql(t) ==
    /\ proc[t].pc = "to_sql"
    /\ store' = store \o proc[t].df
    /\ proc' = [proc EXCEPT ![t] = [@ EXCEPT !.pc = "release"]]
    /\ UNCHANGED <<nodes, config, images, scale, batch_index, overwrite,
                   link_pc, time_points, write_lock, lock_owner, runs,
                   store_at_call>>

\* Line 176, leaving the with statement of line 170.
Release(t) ==
    /\ proc[t].pc = "release"
    /\ proc' = [proc EXCEPT ![t] = [@ EXCEPT !.pc = "done"]]
    /\ lock_owner' = lock_owner \ {t}
    /\ UNCHANGED <<nodes, config, images, scale, batch_index, overwrite,
                   store, link_pc, time_points, write_lock, runs,
                   store_at_call>>

\* ------------------------------------------------------------------ link

\* The time indices a call of _process can be given.
Times == 0..(MaxT - 1)

\* maximum_time: the largest time index that has nodes.
maximum_time ==
    CHOOSE m \in DOMAIN nodes :
        /\ nodes[m] # <<>>
        /\ \A u \in DOMAIN nodes : nodes[u] # <<>> => u <= m

\* batch_index_range: every index below max_t, or the batch of n_workers of them
\* the batch index selects.
batch_index_range(max_t, n_workers, batch) ==
    IF batch = None THEN 0..(max_t - 1)
    ELSE (batch[1] * n_workers)..(Min((batch[1] + 1) * n_workers, max_t) - 1)

\* clear_linking_data: LinkDB emptied.
clear_linking_data(table) == <<>>

\* multiprocessing_sqlite_lock: the lock of the run.
multiprocessing_sqlite_lock == Some("lock")

\* ShouldClear that forgets the call without a batch index.
ShouldClearFirstBatchOnly == overwrite /\ batch_index = Some(0)

\* Line 207: whether this call clears the stored links.
ShouldClear == overwrite /\ (batch_index = None \/ batch_index = Some(0))

\* MayDispatch of a link that starts its tasks before it clears.
MayDispatchEarly == link_pc \in {"clear", "apply"}

\* Whether link has reached multiprocessing_apply (line 218).
MayDispatch == link_pc = "apply"

\* The tasks a worker of the pool is running.
Running == {t \in Times : proc[t].pc \notin {"idle", "done", "raised", "killed"}}

\* Lines 203-205.
Plan ==
    /\ link_pc = "start"
    /\ time_points' =
          batch_index_range(maximum_time, config.n_workers, batch_index)
    /\ link_pc' = "clear"
    /\ UNCHANGED <<nodes, config, images, scale, batch_index, overwrite,
                   store, write_lock, lock_owner, proc, runs,
                   store_at_call>>

\* Lines 207-208.
Clear ==
    /\ link_pc = "clear"
    /\ store' = IF ShouldClear THEN clear_linking_data(store) ELSE store
    /\ link_pc' = "lock"
    /\ UNCHANGED <<nodes, config, images, scale, batch_index, overwrite,
                   time_points, write_lock, lock_owner, proc, runs,
                   store_at_call>>

\* Line 210: entering multiprocessing_sqlite_lock.
EnterLock ==
    /\ link_pc = "lock"
    /\ write_lock' = multiprocessing_sqlite_lock
    /\ lock_owner' = {}
    /\ link_pc' = "apply"
    /\ UNCHANGED <<nodes, config, images, scale, batch_index, overwrite,
                   store, time_points, proc, runs,
                   store_at_call>>

\* Lines 211-220: multiprocessing_apply hands the task of time index t to a free
\* worker of the pool of n_workers.
StartTask(t) ==
    /\ MayDispatch
    /\ t \in time_points
    /\ proc[t].pc = "idle"
    /\ Cardinality(Running) < config.n_workers
    /\ \A u \in Times : proc[u].pc # "raised"
    /\ proc' = [proc EXCEPT ![t] = [@ EXCEPT !.pc = "read"]]
    /\ UNCHANGED <<nodes, config, images, scale, batch_index, overwrite,
                   store, link_pc, time_points, write_lock, lock_owner, runs,
                   store_at_call>>

\* Line 220: every task has returned, link returns.
Return ==
    /\ link_pc = "apply"
    /\ \A t \in time_points : proc[t].pc = "done"
    /\ link_pc' = "done"
    /\ write_lock' = None
    /\ UNCHANGED <<nodes, config, images, scale, batch_index, overwrite,
                   store, time_points, lock_owner, proc, runs,
                   store_at_call>>

\* Line 220: the exception of a task propagates out of link; the pool is torn
\* down with the tasks it was still running.
Propagate ==
    /\ link_pc = "apply"
    /\ \E t \in time_points : proc[t].pc = "raised"
    /\ link_pc' = "failed"
    /\ proc' = [t \in Times |->
                  IF t \in Running THEN [proc[t] EXCEPT !.pc = "killed"]
                  ELSE proc[t]]
    /\ lock_owner' = {}
    /\ write_lock' = None
    /\ UNCHANGED <<nodes, config, images, scale, batch_index, overwrite,
                   store, time_points, runs,
                   store_at_call>>

\* The arguments link can be called with.
BatchIndices == {None} \cup {Some(b) : b \in 0..1}

\* link is called again on the same database.
CallAgain ==
    /\ link_pc \in {"done", "failed"}
    /\ runs < MaxRuns
    /\ runs' = runs + 1
    /\ overwrite' \in BOOLEAN
    /\ batch_index' \in BatchIndices
    /\ link_pc' = "start"
    /\ time_points' = {}
    /\ proc' = [t \in Times |-> NoLocals]
    /\ store_at_call' = store
    /\ UNCHANGED <<nodes, config, images, scale, store, write_lock, lock_owner>>

\* ------------------------------------------------------------------ data

\* A row of NodeDB: the pickled node and its shift, a real per axis.
Row(id, centroid, bbox, shift) ==
    [pickle |-> [id |-> id, centroid |-> centroid, bbox |-> bbox],
     z_shift |-> shift[1], y_shift |-> shift[2], x_shift |-> shift[3]]

\* The nodes a time index can hold, in the order a query returns them.
Pool(t) ==
    <<Row(10 * t + 3, <<4, 4>>, <<3, 3, 6, 6>>, <<7 * Unit, 0, 0>>),
      Row(10 * t + 2, <<4, 5>>, <<3, 4, 6, 7>>, <<0, (3 * Unit) \div 2, -(Unit \div 2)>>),
      Row(10 * t + 4, <<4, 3>>, <<3, 2, 6, 5>>, <<0, 0, 0>>),
      Row(10 * t + 1, <<6, 4>>, <<6, 3, 8, 6>>, <<0, 0, Unit>>),
      Row(10 * t + 5, <<4, 7>>, <<3, 3, 6, 8>>, <<Unit, 0, 0>>)>>

\* The sublists of s of at most n entries.
SubLists(s, n) ==
    {SelectSeq([i \in 1..Len(s) |-> i], LAMBDA i : i \in S) :
        S \in {S \in SUBSET (1..Len(s)) : Cardinality(S) <= n}}

Pick(s, idx) == [i \in 1..Len(idx) |-> s[idx[i]]]

\* Links an earlier run left in LinkDB.
Stale == <<[weight |-> 1, source_id |-> 3, target_id |-> 13],
           [weight |-> 0, source_id |-> 98, target_id |-> 99]>>

\* The node lists time index t holds in a run of link: none, or one of two
\* sublists of its pool.
TimeChoices(t) == {<<>>, Pick(Pool(t), <<1, 2>>), Pick(Pool(t), <<3, 4, 1>>)}

\* LinkingConfig: the reals are fixed-point, so 2 * Unit is 2.0.
Configs(neighbors, distances, weights, thresholds, workers) ==
    [max_neighbors : neighbors,
     max_distance : distances,
     distance_weight : weights,
     z_score_threshold : thresholds,
     n_workers : workers]

\* link called on a database of nodes, LinkDB empty or holding stale links.
Init ==
    /\ nodes \in {f \in [0..MaxT -> UNION {TimeChoices(t) : t \in 0..MaxT}] :
                    /\ \A t \in 0..MaxT : f[t] \in TimeChoices(t)
                    /\ \E t \in 1..MaxT : f[t] # <<>>}
    /\ config \in Configs({1}, {5 * Unit}, {Unit \div 10}, {3 * Unit},
                          1..MaxWorkers)
    /\ images \in {<<>>, <<"a", "b">>}
    /\ scale \in {None}
    /\ batch_index \in BatchIndices
    /\ overwrite \in BOOLEAN
    /\ store \in {<<>>, Stale}
    /\ link_pc = "start"
    /\ time_points = {}
    /\ write_lock = None
    /\ lock_owner = {}
    /\ proc = [t \in Times |-> NoLocals]
    /\ runs = 1
    /\ store_at_call = store

Next ==
    \/ Plan
    \/ Clear
    \/ EnterLock
    \/ \E t \in Times : StartTask(t)
    \/ \E t \in Times : ReadNodes(t)
    \/ \E t \in Times : Align(t)
    \/ \E t \in Times : Query(t)
    \/ \E t \in Times : Features(t)
    \/ \E t \in Times : Translate(t)
    \/ \E t \in Times : Score(t)
    \/ \E t \in Times : Frame(t)
    \/ \E t \in Times : Acquire(t)
    \/ \E t \in Times : ToSql(t)
    \/ \E t \in Times : Release(t)
    \/ Return
    \/ Propagate
    \/ CallAgain

Spec == Init /\ [][Next]_vars

\* _process called directly on time index 0, with or without a lock.
InitProcess ==
    /\ nodes \in {[t \in 0..1 |-> IF t = 0 THEN Pick(Pool(0), c) ELSE Pick(Pool(1), n)] :
                    c \in SubLists(Pool(0), MaxCurrent),
                    n \in SubLists(Leading(Pool(1), 3), MaxNext)}
    /\ config \in Configs(1..MaxNeighbors, {2 * Unit, 5 * Unit},
                          {0, Unit \div 10}, {Unit \div 2, 2 * Unit}, {1})
    /\ images \in {<<>>, <<"a", "b">>}
    /\ scale \in {None, Some(<<3, 1, 2>>), Some(<<2>>)}
    /\ batch_index = None
    /\ overwrite = FALSE
    /\ store = <<>>
    /\ link_pc = "direct"
    /\ time_points = {0}
    /\ write_lock = None
    /\ lock_owner = {}
    /\ proc = [t \in Times |-> IF t = 0 THEN [NoLocals EXCEPT !.pc = "read"]
                                ELSE NoLocals]
    /\ runs = 1
    /\ store_at_call = store

NextProcess ==
    \/ \E t \in time_points : ReadNodes(t)
    \/ \E t \in time_points : Align(t)
    \/ \E t \in time_points : Query(t)
    \/ \E t \in time_points : Features(t)
    \/ \E t \in time_points : Translate(t)
    \/ \E t \in time_points : Score(t)
    \/ \E t \in time_points : Frame(t)
    \/ \E t \in time_points : Acquire(t)
    \/ \E t \in time_points : ToSql(t)
    \/ \E t \in time_points : Release(t)

SpecProcess == InitProcess /\ [][NextProcess]_vars

\* ---------------------------------------------------------------- claims
\* The claims are stated on the rows of NodeDB and LinkDB, with the geometry
\* of a pair of nodes computed from the rows alone.

\* The position of a current-time row as the distance comparison sees it: its
\* centroid, cut to the trailing axes the scale covers and scaled.
AlignedCurrent(row) ==
    LET c == row.pickle.centroid
        m == IF scale = None THEN Len(c) ELSE Min(Len(c), Len(scale[1]))
    IN  [d \in 1..m |->
            c[Len(c) - m + d] * Unit
            * (IF scale = None THEN 1 ELSE scale[1][Len(scale[1]) - m + d])]

\* The position of a next-time row: its centroid plus the trailing components
\* of its shift, cut and scaled the same way.
AlignedNext(row) ==
    LET c == row.pickle.centroid
        sh == Trailing(<<row.z_shift, row.y_shift, row.x_shift>>, Len(c))
        m == IF scale = None THEN Len(c) ELSE Min(Len(c), Len(scale[1]))
    IN  [d \in 1..m |->
            (c[Len(c) - m + d] * Unit + sh[Len(c) - m + d])
            * (IF scale = None THEN 1 ELSE scale[1][Len(scale[1]) - m + d])]

\* The distance between the aligned positions of a current and a next row.
AlignedDistance(c, n) == Distance(AlignedCurrent(c), AlignedNext(n))

\* The box of a next-time row moved by its shift rounded to integers.
ShiftedBox(row) ==
    LET b == row.pickle.bbox
        sy == Round(row.y_shift)
        sx == Round(row.x_shift)
    IN  <<b[1] + sy, b[2] + sx, b[3] + sy, b[4] + sx>>

\* The rows of a table of links with the given target, and with both ends given.
LinksTo(table, target) ==
    {x \in 1..Len(table) : table[x].target_id = target}

LinksBetween(table, source, target) ==
    {x \in 1..Len(table) :
        table[x].source_id = source /\ table[x].target_id = target}

\* C1: for every time index processed and every next-time node, at most
\* config.max_neighbors of the links _process built and of the links it
\* appended to the store have that node as target.
C1_AtMostMaxNeighbors ==
    \A t \in time_points : \A n \in Range(QueryNodes(t + 1)) :
        /\ Cardinality(LinksTo(proc[t].df, n.pickle.id)) <= config.max_neighbors
        /\ Cardinality(LinksTo(store, n.pickle.id)) <= config.max_neighbors

\* A call that has appended exactly max_neighbors links for a next node that has
\* more than 2 * max_neighbors current nodes within the radius.
C1_Witness ==
    \E t \in time_points : \E n \in Range(QueryNodes(t + 1)) :
        /\ proc[t].pc = "done"
        /\ Cardinality(LinksTo(store, n.pickle.id)) = config.max_neighbors
        /\ Cardinality({c \in Range(QueryNodes(t)) :
                            AlignedDistance(c, n) < config.max_distance})
             > 2 * config.max_neighbors

\* C2: a current node and a next node whose aligned distance is greater than
\* config.max_distance are never linked: a pair that is linked, in the rows
\* built or in the store, is not at such a distance.
C2_NoLinkBeyondMaxDistance ==
    \A t \in time_points :
        \A c \in Range(QueryNodes(t)), n \in Range(QueryNodes(t + 1)) :
            (\/ LinksBetween(proc[t].df, c.pickle.id, n.pickle.id) # {}
             \/ LinksBetween(store, c.pickle.id, n.pickle.id) # {})
            => ~(AlignedDistance(c, n) > config.max_distance)

\* A call that has appended a link to a next node which also has a current node
\* beyond the radius.
C2_Witness ==
    \E t \in time_points :
        \E c \in Range(QueryNodes(t)), n \in Range(QueryNodes(t + 1)) :
            /\ proc[t].pc = "done"
            /\ AlignedDistance(c, n) > config.max_distance
            /\ LinksTo(store, n.pickle.id) # {}

\* The weight the claim gives the link of a current row and a next row: the
\* IoU of the next node's box, as moved by its rounded shift, with the current
\* node's box, minus distance_weight times their aligned distance.
ClaimedWeight(c, n) ==
    IoU(ShiftedBox(n), c.pickle.bbox)
    - (config.distance_weight * AlignedDistance(c, n)) \div Unit

\* C6: every link _process builds and appends goes from a current-time node to
\* a next-time node and weighs IoU - distance_weight * distance of that pair.
C6_LinkEndsAndWeight ==
    \A t \in time_points :
        \A row \in Range(proc[t].df) \cup
                   (IF proc[t].pc \in {"release", "done"} THEN Range(store) ELSE {}) :
            \E c \in Range(QueryNodes(t)), n \in Range(QueryNodes(t + 1)) :
                /\ row.source_id = c.pickle.id
                /\ row.target_id = n.pickle.id
                /\ row.weight = ClaimedWeight(c, n)

\* A stored link between overlapping nodes at a nonzero distance, weighted with
\* a nonzero distance_weight, whose next node has a nonzero rounded shift.
C6_Witness ==
    \E t \in time_points :
        \E c \in Range(QueryNodes(t)), n \in Range(QueryNodes(t + 1)) :
            /\ proc[t].pc = "done"
            /\ LinksBetween(store, c.pickle.id, n.pickle.id) # {}
            /\ config.distance_weight > 0
            /\ AlignedDistance(c, n) > 0
            /\ IoU(ShiftedBox(n), c.pickle.bbox) > 0
            /\ ShiftedBox(n) # n.pickle.bbox

\* The positions of a call of _process at which lines 146-165 have run.
Scored == {"frame", "acquire", "to_sql", "release", "done"}

\* The slots of next node i of task t that hold an eligible candidate: a finite
\* distance and a pass of the color filter.
Eligible(t, i) ==
    {s \in 1..Len(proc[t].distances[i]) :
        proc[t].distances[i][s] # Inf /\ proc[t].filtered_by_color[i][s]}

\* C5 (as claimed): a time index with no current node, no next node or no
\* eligible candidate for any next node does not make _process raise, and a
\* call that completes on it appends no link.
C5_DegenerateCompletesEmpty ==
    \A t \in time_points :
        (\/ QueryNodes(t) = <<>>
         \/ QueryNodes(t + 1) = <<>>
         \/ /\ proc[t].filtered_by_color # <<>>
            /\ \A i \in 1..Len(proc[t].distances) : Eligible(t, i) = {})
        => /\ proc[t].pc # "raised"
           /\ proc[t].pc = "done" => proc[t].df = <<>>

\* The ranking key of the candidate in slot s of next node i: its score, its
\* negated distance and its id.
Key(t, i, s) ==
    <<ClaimedWeight(QueryNodes(t)[proc[t].neighbors[i][s]], QueryNodes(t + 1)[i]),
      -proc[t].distances[i][s],
      QueryNodes(t)[proc[t].neighbors[i][s]].pickle.id>>

\* The keys of the links task t built for next node i, in the order built.
Emitted(t, i) ==
    LET mine == SelectSeq(proc[t].links,
                          LAMBDA l : l[4] = QueryNodes(t + 1)[i].pickle.id)
    IN  [x \in 1..Len(mine) |-> <<mine[x][1], mine[x][2], mine[x][3]>>]

\* C7: the links of every next node are the first max_neighbors of its
\* eligible candidates in descending order of (score, -distance, id), next node
\* after next node in the order read; the rows appended are those links in
\* that order. The list is thereby fixed by the inputs.
C7_TopRankedInOrder ==
    \A t \in time_points :
        proc[t].pc \in Scored =>
            /\ \A i \in 1..Len(proc[t].next_nodes) :
                /\ Len(Emitted(t, i)) =
                       Min(config.max_neighbors, Cardinality(Eligible(t, i)))
                /\ \A x \in 1..Len(Emitted(t, i)) :
                       \E s \in Eligible(t, i) : Key(t, i, s) = Emitted(t, i)[x]
                /\ \A x, y \in 1..Len(Emitted(t, i)) :
                       x < y => TupleLess(Emitted(t, i)[y], Emitted(t, i)[x])
                /\ \A s \in Eligible(t, i) :
                       Key(t, i, s) \notin Range(Emitted(t, i)) =>
                           \A x \in 1..Len(Emitted(t, i)) :
                               TupleLess(Key(t, i, s), Emitted(t, i)[x])
            /\ [x \in 1..Len(proc[t].links) |->
                    <<proc[t].links[x][1], proc[t].links[x][2], proc[t].links[x][3]>>]
                 = Flatten([i \in 1..Len(proc[t].next_nodes) |-> Emitted(t, i)])
            /\ proc[t].pc # "frame" =>
                   proc[t].df =
                       [x \in 1..Len(proc[t].links) |->
                           [weight |-> proc[t].links[x][1],
                            source_id |-> proc[t].links[x][3],
                            target_id |-> proc[t].links[x][4]]]

\* A completed call in which two eligible candidates of a next node tie on score
\* and on distance, and the cut falls between them: the one with the larger id
\* is linked, the other is not.
C7_Witness ==
    \E t \in time_points : \E i \in 1..Len(proc[t].next_nodes) :
        /\ proc[t].pc = "done"
        /\ \E s1, s2 \in Eligible(t, i) :
            /\ Key(t, i, s1)[1] = Key(t, i, s2)[1]
            /\ Key(t, i, s1)[2] = Key(t, i, s2)[2]
            /\ Key(t, i, s1)[3] > Key(t, i, s2)[3]
            /\ Key(t, i, s1) \in Range(Emitted(t, i))
            /\ Key(t, i, s2) \notin Range(Emitted(t, i))

\* The features of a row as read from the frame with the row's own box.
RawMean(row, time) == intensity_mean(row.pickle, time, images)

RawStd(row, time) ==
    LET std == intensity_std(row.pickle, time, images)
    IN  [c \in 1..Len(images) |->
            IF std[c] * StdFloorDen <= Unit THEN Unit ELSE std[c]]

\* C9: the boxes of the next nodes are as read until the features have been
\* extracted; the features of the next nodes, once extracted and still once
\* the boxes have been moved, are those of the boxes as read; the boxes are
\* moved by the rounded shift before any link is scored, and every score uses
\* the moved box.
C9_TranslateAfterFeaturesBeforeIoU ==
    \A t \in time_points :
        /\ proc[t].pc \in {"align", "query", "features", "translate"} =>
               proc[t].next_nodes = Pickles(QueryNodes(t + 1))
        /\ (proc[t].pc \in {"translate", "score"} /\ images # <<>>) =>
               \A i \in 1..Len(proc[t].next_nodes) :
                   /\ proc[t].next_features[i] = RawMean(QueryNodes(t + 1)[i], t + 1)
                   /\ proc[t].next_features_std[i] = RawStd(QueryNodes(t + 1)[i], t + 1)
        /\ proc[t].pc \in {"align", "query", "features", "translate", "score"} =>
               proc[t].links = <<>>
        /\ proc[t].pc \in {"score"} \cup Scored =>
               \A i \in 1..Len(proc[t].next_nodes) :
                   proc[t].next_nodes[i].bbox = ShiftedBox(QueryNodes(t + 1)[i])
        /\ proc[t].pc \in Scored =>
               \A i \in 1..Len(proc[t].next_nodes) : \A s \in Eligible(t, i) :
                   Key(t, i, s) \in Range(Emitted(t, i)) =>
                       \E l \in Range(proc[t].links) :
                           /\ l[3] = Key(t, i, s)[3]
                           /\ l[4] = QueryNodes(t + 1)[i].pickle.id
                           /\ l[1] = IoU(ShiftedBox(QueryNodes(t + 1)[i]),
                                         QueryNodes(t)[proc[t].neighbors[i][s]].pickle.bbox)
                                     - (config.distance_weight * proc[t].distances[i][s])
                                           \div Unit

\* A completed call with images and a linked next node whose rounded shift
\* moves its box to pixels of another mean intensity and to another IoU with
\* the current node it is linked to.
C9_Witness ==
    \E t \in time_points :
        \E c \in Range(QueryNodes(t)), n \in Range(QueryNodes(t + 1)) :
            /\ proc[t].pc = "done"
            /\ images # <<>>
            /\ LinksBetween(store, c.pickle.id, n.pickle.id) # {}
            /\ intensity_mean([n.pickle EXCEPT !.bbox = ShiftedBox(n)], t + 1, images)
                 # RawMean(n, t + 1)
            /\ IoU(ShiftedBox(n), c.pickle.bbox) # IoU(n.pickle.bbox, c.pickle.bbox)

\* The largest normalized deviation over the channels between a next row and a
\* current row: |mean(n) - mean(c)| / std(n), a std at or below 1e-6 taken as 1.
ZScore(c, n, t) ==
    MaxSeq([ch \in 1..Len(images) |->
        Abs(Divide(RawMean(n, t + 1)[ch] - RawMean(c, t)[ch], RawStd(n, t + 1)[ch]))])

\* The current rows within the radius of a next row.
WithinRadius(t, n) ==
    {c \in Range(QueryNodes(t)) : AlignedDistance(c, n) < config.max_distance}

\* C10: with images, every link built or appended joins a pair whose largest
\* normalized deviation is at most z_score_threshold; without images, distance
\* alone decides: a next node gets max_neighbors links, or one per current node
\* within the radius when those are fewer.
C10_ColorFilter ==
    \A t \in time_points :
        /\ images # <<>> =>
            \A c \in Range(QueryNodes(t)), n \in Range(QueryNodes(t + 1)) :
                (\/ LinksBetween(proc[t].df, c.pickle.id, n.pickle.id) # {}
                 \/ LinksBetween(store, c.pickle.id, n.pickle.id) # {})
                => ZScore(c, n, t) <= config.z_score_threshold
        /\ (images = <<>> /\ proc[t].pc \in Scored) =>
            \A i \in 1..Len(proc[t].next_nodes) :
                Len(Emitted(t, i)) =
                    Min(config.max_neighbors,
                        Cardinality(WithinRadius(t, QueryNodes(t + 1)[i])))

\* A completed call with images that rejected a pair within the radius for its
\* color and linked a pair whose next node has a channel of zero deviation.
C10_Witness ==
    \E t \in time_points :
        /\ proc[t].pc = "done"
        /\ images # <<>>
        /\ \E c \in Range(QueryNodes(t)), n \in Range(QueryNodes(t + 1)) :
            /\ c \in WithinRadius(t, n)
            /\ ZScore(c, n, t) > config.z_score_threshold
            /\ LinksBetween(store, c.pickle.id, n.pickle.id) = {}
        /\ \E c \in Range(QueryNodes(t)), n \in Range(QueryNodes(t + 1)) :
            /\ LinksBetween(store, c.pickle.id, n.pickle.id) # {}
            /\ \E ch \in 1..Len(images) :
                   intensity_std(n.pickle, t + 1, images)[ch] = 0
            /\ ZScore(c, n, t) > 0

\* The tasks inside the with statement of line 170: the lock taken, the rows
\* not yet or just appended, the lock not yet released.
Appending == {t \in Times : proc[t].pc \in {"to_sql", "release"}}

\* The tasks reading nodes or computing links (lines 76-168).
Computing ==
    {t \in Times : proc[t].pc \in {"read", "align", "query", "features",
                                   "translate", "score", "frame", "acquire"}}

\* C3: at most one task of a run is inside the append section at any moment;
\* the tasks holding the write lock are exactly those inside it, so the lock
\* is taken before the append, released after it, and not held by a task that
\* reads nodes or computes.
C3_OneWriterAtATime ==
    /\ Cardinality(Appending) <= 1
    /\ write_lock # None => lock_owner = Appending
    /\ lock_owner \cap Computing = {}

\* A task has appended and still holds the lock, a second one waits to enter
\* with its links ready.
C3_Witness ==
    \E t, u \in Times :
        /\ proc[t].pc = "release"
        /\ proc[u].pc = "acquire"
        /\ proc[u].df # <<>>

\* link was called with overwrite set and batch_index absent or 0.
ClearingCall == overwrite /\ batch_index \in {None, Some(0)}

\* The number of rows of a table equal to r.
Copies(table, r) == Cardinality({x \in 1..Len(table) : table[x] = r})

\* C4: in a call of link that clears the stored links, no task has started
\* while the clear is still to come, and the rows a task of the call has
\* appended stay in the store.
C4_ClearBeforeWriters ==
    ClearingCall =>
        /\ link_pc \in {"start", "clear"} => \A t \in Times : proc[t].pc = "idle"
        /\ \A t \in Times :
               proc[t].pc \in {"release", "done"} =>
                   \A r \in Range(proc[t].df) :
                       Copies(store, r) >= Copies(proc[t].df, r)

\* A clearing call of link on a store that held links: one task has appended,
\* another is still running, and the store holds the appended rows only.
C4_Witness ==
    /\ ClearingCall
    /\ store_at_call # <<>>
    /\ link_pc = "apply"
    /\ \E t, u \in Times :
        /\ proc[t].pc = "done"
        /\ u \in Computing
        /\ store = proc[t].df

\* The rows _process appends for time index t, as a function of the rows of
\* NodeDB, the configuration, the images and the scale.
RowsOfQuery(t, current, next, shift, q) ==
    LinkRows(ScoreLinks(MoveNodes(next, TrimShift(shift, Len(next[1].centroid))),
                        current, q[1], q[2],
                        IF images = <<>> THEN OnesLike(q[2])
                        ELSE ColorFilter(t, current, next, images, q[2],
                                         config.z_score_threshold).filtered_by_color,
                        config.distance_weight, config.max_neighbors))

RowsOfLists(t, current, next, shift) ==
    RowsOfQuery(t, current, next, shift,
                KDTreeQuery(CurrentPos(current, next, scale),
                            NextPos(next, shift, scale),
                            2 * config.max_neighbors, config.max_distance))

RowsOf(t) ==
    RowsOfLists(t, Pickles(QueryNodes(t)), Pickles(QueryNodes(t + 1)),
                Shifts(QueryNodes(t + 1)))

\* The links of all time indices below the maximum time.
LinksOfNodes == Flatten([u \in 1..maximum_time |-> RowsOf(u - 1)])

\* Two tables hold the same rows, each as many times.
SameRows(a, b) ==
    \A r \in Range(a) \cup Range(b) : Copies(a, r) = Copies(b, r)

\* C8: when a call of link that cleared the store has processed every time
\* index below the maximum time and returned, the store holds the links of the
\* nodes, whatever it held when link was called: on the first call and on a
\* call that follows another.
C8_OverwriteDependsOnNodesOnly ==
    (/\ link_pc = "done"
     /\ ClearingCall
     /\ time_points = 0..(maximum_time - 1))
    => SameRows(store, LinksOfNodes)

\* A second call of link, clearing, has returned from a full run on a store
\* that held more links than the nodes have.
C8_Witness ==
    /\ link_pc = "done"
    /\ runs = 2
    /\ overwrite
    /\ batch_index = None
    /\ Cardinality(time_points) = 2
    /\ Len(store_at_call) > Len(store)
    /\ store # <<>>

====
